---- MODULE Spec2Model ----
(***************************************************************************)
(* Model of kulka.py: the 14-day Day/Night rotation lookup (get_shift),    *)
(* the monthly aggregation (count_shifts), the calendar construction       *)
(* (get_employee_calendar) and the script that drives them.                *)
(*                                                                         *)
(* A datetime.date is modelled by its proleptic Gregorian ordinal          *)
(* (date.toordinal()), so that date - date is integer subtraction and      *)
(* date - timedelta(days=1) is ordinal - 1.  A Python str is a TLA+ string;*)
(* the one non-ASCII character of the program's text, the en dash U+2013   *)
(* of the off-day label, is written EN_DASH.                               *)
(***************************************************************************)
EXTENDS Integers, Sequences, FiniteSets, TLC

VARIABLES pc, raw_custom, year, selected_month, emp, d, morning, night,
          summary_rows, chosen_name, rows, gs

vars == <<pc, raw_custom, year, selected_month, emp, d, morning, night,
          summary_rows, chosen_name, rows, gs>>

(***************************************************************************)
(* Bounds of the model.                                                    *)
(***************************************************************************)
\* the script queries AppYear; count_shifts and get_employee_calendar take
\* any year, so the model also queries the years around it
YearsBefore == 1
YearsAfter == 0
\* get_shift is applied to the dates threshold - MaxDelta .. threshold + MaxDelta
MaxDelta == 45

(***************************************************************************)
(* The calendar and datetime library functions the program calls.          *)
(***************************************************************************)
AppYear == 2025

Years == (AppYear - YearsBefore)..(AppYear + YearsAfter)

isleap(y) == y % 4 = 0 /\ (y % 100 # 0 \/ y % 400 = 0)

mdays == <<31, 28, 31, 30, 31, 30, 31, 31, 30, 31, 30, 31>>

\* calendar.monthrange(year, month)[1]
monthrange(y, m) == mdays[m] + (IF m = 2 /\ isleap(y) THEN 1 ELSE 0)

days_before_year(y) ==
    (y - 1) * 365 + ((y - 1) \div 4) - ((y - 1) \div 100) + ((y - 1) \div 400)

RECURSIVE days_before_month(_, _)
days_before_month(y, m) ==
    IF m = 1 THEN 0 ELSE days_before_month(y, m - 1) + monthrange(y, m - 1)

\* datetime.date(y, m, dd), as its ordinal
date(y, m, dd) == days_before_year(y) + days_before_month(y, m) + dd

\* date.year, date.month, date.day of an ordinal
year_of(o) ==
    CHOOSE y \in (AppYear - YearsBefore - 1)..(AppYear + YearsAfter + 1) :
        days_before_year(y) < o /\ o <= days_before_year(y + 1)

month_of(o) ==
    LET y == year_of(o)
        n == o - days_before_year(y)
    IN  CHOOSE m \in 1..12 :
            days_before_month(y, m) < n /\ n <= days_before_month(y, m) + monthrange(y, m)

day_of(o) ==
    LET y == year_of(o) IN o - days_before_year(y) - days_before_month(y, month_of(o))

\* date.weekday(): Monday is 0
weekday(o) == (o + 6) % 7

\* calendar.day_name
day_name == <<"Monday", "Tuesday", "Wednesday", "Thursday", "Friday", "Saturday", "Sunday">>

\* date.strftime("%B")
month_name_of == <<"January", "February", "March", "April", "May", "June", "July",
                   "August", "September", "October", "November", "December">>

Pad2(n) == IF n < 10 THEN "0" \o ToString(n) ELSE ToString(n)

\* date.strftime("%Y-%m-%d")
strftime(o) == ToString(year_of(o)) \o "-" \o Pad2(month_of(o)) \o "-" \o Pad2(day_of(o))

(***************************************************************************)
(* The static tables.                                                      *)
(***************************************************************************)
RawCustomTable ==
    [n \in {"Sundar", "Samyugtha", "Jalapathy"} |->
        CASE n = "Sundar"    -> [threshold |-> date(2025, 5, 28), start_shift |-> "Night"]
          [] n = "Samyugtha" -> [threshold |-> date(2025, 5, 28), start_shift |-> "Day"]
          [] n = "Jalapathy" -> [threshold |-> date(2025, 5, 31), start_shift |-> "Day"]]

employees == <<
    [name |-> "Periyasamy", shift_type |-> "Day Shift Only",  week_offs |-> <<"Tuesday", "Wednesday">>],
    [name |-> "Sundar",     shift_type |-> "Day/Night Shift", week_offs |-> <<"Monday", "Tuesday">>],
    [name |-> "Jalapathy",  shift_type |-> "Day/Night Shift", week_offs |-> <<"Thursday", "Friday">>],
    [name |-> "Samyugtha",  shift_type |-> "Day/Night Shift", week_offs |-> <<"Monday", "Tuesday">>],
    [name |-> "Durgeshini", shift_type |-> "Day Shift Only",  week_offs |-> <<"Friday">>] >>

day_map ==
    [w \in {"Monday", "Tuesday", "Wednesday", "Thursday", "Friday", "Saturday", "Sunday"} |->
        CASE w = "Monday" -> 0 [] w = "Tuesday" -> 1 [] w = "Wednesday" -> 2
          [] w = "Thursday" -> 3 [] w = "Friday" -> 4 [] w = "Saturday" -> 5
          [] w = "Sunday" -> 6]

\* {day_map[d] for d in emp["week_offs"]}
week_off_days(e) == {day_map[e.week_offs[i]] : i \in 1..Len(e.week_offs)}

employee_names == [i \in 1..Len(employees) |-> employees[i].name]

\* the en dash of the off-day label
EN_DASH == "<U+2013>"

\* _last_working_day returns None
None == 0

(***************************************************************************)
(* get_shift                                                               *)
(***************************************************************************)
\* a rotation that divides the signed delta by truncation toward zero
get_shift_trunc(threshold, start_shift, dt) ==
    LET delta_days == dt - threshold
        period == IF delta_days >= 0 THEN delta_days \div 14 ELSE -((-delta_days) \div 14)
    IN  IF (period % 2) = 0
        THEN start_shift
        ELSE IF start_shift = "Day" THEN "Night" ELSE "Day"

\* a rotation whose odd periods do not swap the shift
get_shift_noswap(threshold, start_shift, dt) ==
    LET delta_days == dt - threshold
        period == delta_days \div 14
    IN  IF (period % 2) = 0
        THEN start_shift
        ELSE IF start_shift = "Day" THEN "Day" ELSE "Night"

get_shift(threshold, start_shift, dt) ==
    LET delta_days == dt - threshold
        period == delta_days \div 14
    IN  IF (period % 2) = 0
        THEN start_shift
        ELSE IF start_shift = "Day" THEN "Night" ELSE "Day"

(***************************************************************************)
(* count_shifts                                                            *)
(***************************************************************************)
\* a backward scan that does not stop at the first day of the month
RECURSIVE count_scan_any_month(_, _, _)
count_scan_any_month(candidate, prev_date, offs) ==
    IF weekday(candidate) \notin offs
    THEN candidate
    ELSE count_scan_any_month(candidate - 1, prev_date, offs)

RECURSIVE count_scan(_, _, _)
count_scan(candidate, prev_date, offs) ==
    IF month_of(candidate) = month_of(prev_date)
    THEN IF weekday(candidate) \notin offs
         THEN candidate
         ELSE count_scan(candidate - 1, prev_date, offs)
    ELSE None

\* count_shifts._last_working_day
count_last_working_day(prev_date, offs) == count_scan(prev_date - 1, prev_date, offs)

\* the branch of an off-day: what it adds to (morning, night)
count_off_day(e, dt) ==
    LET prev_work == count_last_working_day(dt, week_off_days(e))
    IN  IF prev_work = None
        THEN [morning |-> 1, night |-> 0]
        ELSE IF e.shift_type = "Day Shift Only"
             THEN [morning |-> 1, night |-> 0]
             ELSE LET prior == get_shift(raw_custom[e.name].threshold,
                                         raw_custom[e.name].start_shift,
                                         prev_work)
                  IN  IF prior = "Day"
                      THEN [morning |-> 1, night |-> 0]
                      ELSE [morning |-> 0, night |-> 1]

\* a working day of a day-only employee counted in the wrong bucket
count_work_day_wrong_bucket(e, dt) ==
    IF e.shift_type = "Day Shift Only"
    THEN [morning |-> 0, night |-> 1]
    ELSE LET today_shift == get_shift(raw_custom[e.name].threshold,
                                      raw_custom[e.name].start_shift,
                                      dt)
         IN  IF today_shift = "Day"
             THEN [morning |-> 1, night |-> 0]
             ELSE [morning |-> 0, night |-> 1]

\* the branch of a working day: what it adds to (morning, night)
count_work_day(e, dt) ==
    IF e.shift_type = "Day Shift Only"
    THEN [morning |-> 1, night |-> 0]
    ELSE LET today_shift == get_shift(raw_custom[e.name].threshold,
                                      raw_custom[e.name].start_shift,
                                      dt)
         IN  IF today_shift = "Day"
             THEN [morning |-> 1, night |-> 0]
             ELSE [morning |-> 0, night |-> 1]

\* the body of the loop of count_shifts reads raw_custom[name] on this date
count_reads_anchor(e, dt) ==
    /\ e.shift_type # "Day Shift Only"
    /\ \/ weekday(dt) \notin week_off_days(e)
       \/ count_last_working_day(dt, week_off_days(e)) # None

\* range(1, days_in_month): the last day of the month is left out
count_loop_stops_early(dd, days_in_month) == dd < days_in_month

\* for d in range(1, days_in_month + 1) has a next d
count_loop_has_next(dd, days_in_month) == dd <= days_in_month

(***************************************************************************)
(* get_employee_calendar                                                   *)
(***************************************************************************)
\* a backward scan that does not stop at the first day of the month
RECURSIVE cal_scan_any_month(_, _, _)
cal_scan_any_month(candidate, prev_date, offs) ==
    IF weekday(candidate) \notin offs
    THEN candidate
    ELSE cal_scan_any_month(candidate - 1, prev_date, offs)

RECURSIVE cal_scan(_, _, _)
cal_scan(candidate, prev_date, offs) ==
    IF month_of(candidate) = month_of(prev_date)
    THEN IF weekday(candidate) \notin offs
         THEN candidate
         ELSE cal_scan(candidate - 1, prev_date, offs)
    ELSE None

\* get_employee_calendar._last_working_day
cal_last_working_day(prev_date, offs) == cal_scan(prev_date - 1, prev_date, offs)

\* an off-day label written with a bare hyphen
off_label_hyphen(prior) == "Off-(" \o prior \o ")"

\* f"Off <en dash> ({prior})"
off_label(prior) == "Off " \o EN_DASH \o " (" \o prior \o ")"

\* the label of an off-day
cal_off_day(e, dt) ==
    LET prev_work == cal_last_working_day(dt, week_off_days(e))
    IN  IF prev_work = None
        THEN "Off " \o EN_DASH \o " (Day)"
        ELSE IF e.shift_type = "Day Shift Only"
             THEN "Off " \o EN_DASH \o " (Day)"
             ELSE LET prior == get_shift(raw_custom[e.name].threshold,
                                         raw_custom[e.name].start_shift,
                                         prev_work)
                  IN  off_label(prior)

\* the label of a working day
cal_work_day(e, dt) ==
    IF e.shift_type = "Day Shift Only"
    THEN "Day"
    ELSE get_shift(raw_custom[e.name].threshold, raw_custom[e.name].start_shift, dt)

\* range(1, days_in_month): the last day of the month is left out
cal_loop_stops_early(dd, days_in_month) == dd < days_in_month

\* for d in range(1, days_in_month + 1) has a next d
cal_loop_has_next(dd, days_in_month) == dd <= days_in_month

(***************************************************************************)
(* The script: the month selector, the summary loop over the employees,    *)
(* the employee selector and the calendar of the chosen employee.          *)
(***************************************************************************)
NoCall == [threshold |-> 0, start_shift |-> "", date |-> 0, result |-> ""]

Init ==
    /\ pc = "select_month"
    /\ raw_custom = RawCustomTable
    /\ year = AppYear
    /\ selected_month = 5
    /\ emp = 0
    /\ d = 0
    /\ morning = 0
    /\ night = 0
    /\ summary_rows = <<>>
    /\ chosen_name = ""
    /\ rows = <<>>
    /\ gs = NoCall

\* st.selectbox("Select Month", ...), and the year of the query
SelectMonth ==
    /\ pc = "select_month"
    /\ \E m \in 1..12 : selected_month' = m
    /\ \E y \in Years : year' = y
    /\ summary_rows' = <<>>
    /\ emp' = 1
    /\ pc' = "summary_loop"
    /\ UNCHANGED <<raw_custom, d, morning, night, chosen_name, rows, gs>>

\* for emp in employees: count_shifts(emp, year, selected_month) is entered
CountShiftsCall ==
    /\ pc = "summary_loop"
    /\ emp <= Len(employees)
    /\ morning' = 0
    /\ night' = 0
    /\ d' = 1
    /\ pc' = "count_loop"
    /\ UNCHANGED <<raw_custom, year, selected_month, emp, summary_rows, chosen_name, rows, gs>>

\* one iteration of the loop of count_shifts
CountLoopStep ==
    /\ pc = "count_loop"
    /\ count_loop_has_next(d, monthrange(year, selected_month))
    /\ LET e == employees[emp]
           dt == date(year, selected_month, d)
           add == IF weekday(dt) \in week_off_days(e)
                  THEN count_off_day(e, dt)
                  ELSE count_work_day(e, dt)
       IN  /\ count_reads_anchor(e, dt) => e.name \in DOMAIN raw_custom
           /\ morning' = morning + add.morning
           /\ night' = night + add.night
    /\ d' = d + 1
    /\ UNCHANGED <<pc, raw_custom, year, selected_month, emp, summary_rows, chosen_name, rows, gs>>

\* return morning, night; the row of the summary table is appended
CountShiftsReturn ==
    /\ pc = "count_loop"
    /\ ~count_loop_has_next(d, monthrange(year, selected_month))
    /\ summary_rows' = Append(summary_rows,
            [Name      |-> employees[emp].name,
             ShiftType |-> employees[emp].shift_type,
             Month     |-> month_name_of[selected_month] \o " " \o ToString(year),
             Morning   |-> morning,
             Night     |-> night,
             Total     |-> morning + night])
    /\ emp' = emp + 1
    /\ pc' = "summary_loop"
    /\ UNCHANGED <<raw_custom, year, selected_month, d, morning, night, chosen_name, rows, gs>>

\* st.selectbox("Employee", [""] + employee_names): nothing chosen
SelectNoEmployee ==
    /\ pc = "summary_loop"
    /\ emp > Len(employees)
    /\ chosen_name' = ""
    /\ pc' = "done"
    /\ UNCHANGED <<raw_custom, year, selected_month, emp, d, morning, night, summary_rows, rows, gs>>

\* an employee is chosen: get_employee_calendar(emp, year, selected_month) is entered
SelectEmployee ==
    /\ pc = "summary_loop"
    /\ emp > Len(employees)
    /\ \E i \in 1..Len(employee_names) :
          /\ chosen_name' = employee_names[i]
          /\ emp' = CHOOSE j \in 1..Len(employees) :
                       /\ employees[j].name = employee_names[i]
                       /\ \A k \in 1..(j - 1) : employees[k].name # employee_names[i]
    /\ rows' = <<>>
    /\ d' = 1
    /\ pc' = "cal_loop"
    /\ UNCHANGED <<raw_custom, year, selected_month, morning, night, summary_rows, gs>>

\* one iteration of the loop of get_employee_calendar
CalLoopStep ==
    /\ pc = "cal_loop"
    /\ cal_loop_has_next(d, monthrange(year, selected_month))
    /\ LET e == employees[emp]
           dt == date(year, selected_month, d)
           wd == weekday(dt)
           label == IF wd \in week_off_days(e)
                    THEN cal_off_day(e, dt)
                    ELSE cal_work_day(e, dt)
       IN  rows' = Append(rows, [Date |-> strftime(dt), Weekday |-> day_name[wd + 1], Shift |-> label])
    /\ d' = d + 1
    /\ UNCHANGED <<pc, raw_custom, year, selected_month, emp, morning, night, summary_rows, chosen_name, gs>>

\* return pd.DataFrame(rows)
CalReturn ==
    /\ pc = "cal_loop"
    /\ ~cal_loop_has_next(d, monthrange(year, selected_month))
    /\ pc' = "done"
    /\ UNCHANGED <<raw_custom, year, selected_month, emp, d, morning, night, summary_rows, chosen_name, rows, gs>>

Next ==
    \/ SelectMonth
    \/ CountShiftsCall
    \/ CountLoopStep
    \/ CountShiftsReturn
    \/ SelectNoEmployee
    \/ SelectEmployee
    \/ CalLoopStep
    \/ CalReturn

Spec == Init /\ [][Next]_vars

(***************************************************************************)
(* get_shift on its own: every anchor of AnchorSet, every date within      *)
(* MaxDelta days of the threshold.                                         *)
(***************************************************************************)
AnchorSet ==
    {[threshold |-> RawCustomTable[n].threshold, start_shift |-> s] :
        n \in DOMAIN RawCustomTable, s \in {"Day", "Night"}}

InitShift ==
    /\ pc = "get_shift_call"
    /\ \E a \in AnchorSet : \E delta \in (-MaxDelta)..MaxDelta :
          gs = [threshold |-> a.threshold, start_shift |-> a.start_shift,
                date |-> a.threshold + delta, result |-> ""]
    /\ raw_custom = RawCustomTable
    /\ year = AppYear
    /\ selected_month = 5
    /\ emp = 0
    /\ d = 0
    /\ morning = 0
    /\ night = 0
    /\ summary_rows = <<>>
    /\ chosen_name = ""
    /\ rows = <<>>

GetShiftCall ==
    /\ pc = "get_shift_call"
    /\ gs' = [gs EXCEPT !.result = get_shift(gs.threshold, gs.start_shift, gs.date)]
    /\ pc' = "get_shift_done"
    /\ UNCHANGED <<raw_custom, year, selected_month, emp, d, morning, night,
                   summary_rows, chosen_name, rows>>

NextShift == GetShiftCall

SpecShift == InitShift /\ [][NextShift]_vars

(***************************************************************************)
(* The script under an anchor table that may lack entries: raw_custom is   *)
(* any restriction of the given table.                                     *)
(***************************************************************************)
InitConfig ==
    /\ pc = "select_month"
    /\ \E S \in SUBSET (DOMAIN RawCustomTable) : raw_custom = [n \in S |-> RawCustomTable[n]]
    /\ year = AppYear
    /\ selected_month = 5
    /\ emp = 0
    /\ d = 0
    /\ morning = 0
    /\ night = 0
    /\ summary_rows = <<>>
    /\ chosen_name = ""
    /\ rows = <<>>
    /\ gs = NoCall

\* raw_custom[name] raises KeyError inside the loop of count_shifts
CountKeyError ==
    /\ pc = "count_loop"
    /\ count_loop_has_next(d, monthrange(year, selected_month))
    /\ count_reads_anchor(employees[emp], date(year, selected_month, d))
    /\ employees[emp].name \notin DOMAIN raw_custom
    /\ pc' = "error"
    /\ UNCHANGED <<raw_custom, year, selected_month, emp, d, morning, night,
                   summary_rows, chosen_name, rows, gs>>

NextConfig ==
    \/ SelectMonth
    \/ CountShiftsCall
    \/ CountLoopStep
    \/ CountKeyError
    \/ CountShiftsReturn
    \/ SelectNoEmployee
    \/ SelectEmployee
    \/ CalLoopStep
    \/ CalReturn

SpecConfig == InitConfig /\ [][NextConfig]_vars

(***************************************************************************)
(* What the properties are stated with.  None of it is used by the         *)
(* actions above.                                                          *)
(***************************************************************************)
IsLeapYear(y) == (y % 4 = 0 /\ y % 100 # 0) \/ y % 400 = 0

\* the number of days of month m of year y, by the closed formula
DaysInMonth(y, m) ==
    28 + ((m + (m \div 8)) % 2) + (2 % m) + 2 * (1 \div m)
       + (IF m = 2 /\ IsLeapYear(y) THEN 1 ELSE 0)

\* floor(a / b) for b > 0: the one q with b*q <= a < b*(q+1)
FloorDiv(a, b) ==
    CHOOSE q \in (-(MaxDelta + 29))..(MaxDelta + 29) : b * q <= a /\ a < b * (q + 1)

IsEven(n) == \E h \in (-(MaxDelta + 29))..(MaxDelta + 29) : n = 2 * h

Opposite(s) == IF s = "Day" THEN "Night" ELSE "Day"

DayOnlyNames == {"Periyasamy", "Durgeshini"}

\* day dd of the queried month is an off-day of employee e
IsOffDay(e, dd) ==
    \E i \in 1..Len(e.week_offs) :
        day_name[weekday(date(year, selected_month, dd)) + 1] = e.week_offs[i]

\* the nearest earlier day of the queried month that is not an off-day, 0 when there is none
PriorWorkingDay(e, dd) ==
    LET S == {k \in 1..(dd - 1) : ~IsOffDay(e, k)}
    IN  IF S = {} THEN 0 ELSE CHOOSE k \in S : \A j \in S : j <= k

\* the shift of employee e on day dd of the queried month
ShiftOn(e, dd) ==
    IF e.name \in DayOnlyNames
    THEN "Day"
    ELSE get_shift(RawCustomTable[e.name].threshold, RawCustomTable[e.name].start_shift,
                   date(year, selected_month, dd))

\* the shift an off-day dd is attributed to
ResolvedShift(e, dd) ==
    IF PriorWorkingDay(e, dd) = 0 THEN "Day" ELSE ShiftOn(e, PriorWorkingDay(e, dd))

OffDayLabels == {"Off " \o EN_DASH \o " (Day)", "Off " \o EN_DASH \o " (Night)"}

\* the shift a label names: the label itself, or the text between the parentheses
LabelShift(label) ==
    CHOOSE s \in {"Day", "Night"} : label = s \/ label = "Off " \o EN_DASH \o " (" \o s \o ")"

\* the calendar of the chosen employee is being built or is built
InCalendar == pc \in {"cal_loop", "done"} /\ chosen_name # ""

\* the text of day dd of the queried month
DateText(dd) ==
    ToString(year) \o "-" \o (IF selected_month < 10 THEN "0" ELSE "") \o ToString(selected_month)
                   \o "-" \o (IF dd < 10 THEN "0" ELSE "") \o ToString(dd)

GetShiftDone == pc = "get_shift_done"

(***************************************************************************)
(* C1                                                                      *)
(***************************************************************************)
\* C1: every row of the summary holds two non-negative integers whose sum is
\* the number of days of the month, and inside the loop of count_shifts every
\* date already visited is in exactly one of the two buckets.
C1_UnitsSumToDaysInMonth ==
    /\ \A i \in 1..Len(summary_rows) :
          /\ summary_rows[i].Morning \in Nat
          /\ summary_rows[i].Night \in Nat
          /\ summary_rows[i].Morning + summary_rows[i].Night = DaysInMonth(year, selected_month)
    /\ pc = "count_loop" => morning \in Nat /\ night \in Nat /\ morning + night = d - 1

C1_Witness ==
    /\ Len(summary_rows) = Len(employees)
    /\ selected_month = 2
    /\ \E i \in 1..Len(summary_rows) : summary_rows[i].Night > 0 /\ summary_rows[i].Morning > 0

(***************************************************************************)
(* C2                                                                      *)
(***************************************************************************)
\* C2 as stated: get_shift of a date and of the date 14 days later are equal.
C2_Original ==
    GetShiftDone => gs.result = get_shift(gs.threshold, gs.start_shift, gs.date + 14)

\* C2, amended: get_shift of a date and of the date 28 days later are equal,
\* and get_shift of the date 14 days later is the opposite shift.
C2_Period28 ==
    GetShiftDone =>
        /\ gs.result = get_shift(gs.threshold, gs.start_shift, gs.date + 28)
        /\ get_shift(gs.threshold, gs.start_shift, gs.date + 14) = Opposite(gs.result)

C2_Witness ==
    /\ GetShiftDone
    /\ gs.date < gs.threshold
    /\ gs.date + 14 > gs.threshold
    /\ gs.result # gs.start_shift

(***************************************************************************)
(* C3                                                                      *)
(***************************************************************************)
\* C3 as stated: the date 14*k days before the threshold, k >= 1, gets start_shift.
C3_Original ==
    GetShiftDone =>
        \A k \in 1..(MaxDelta \div 14) :
            gs.date = gs.threshold - 14 * k => gs.result = gs.start_shift

\* C3, amended: the date 14*k days before the threshold, k >= 1, gets
\* start_shift when k is even and the opposite shift when k is odd.
C3_MultiplesBeforeThreshold ==
    GetShiftDone =>
        \A k \in 1..(MaxDelta \div 14) :
            gs.date = gs.threshold - 14 * k =>
                gs.result = IF IsEven(k) THEN gs.start_shift ELSE Opposite(gs.start_shift)

C3_Witness ==
    /\ GetShiftDone
    /\ gs.date = gs.threshold - 28
    /\ gs.result = gs.start_shift

(***************************************************************************)
(* C4                                                                      *)
(***************************************************************************)
\* C4: get_shift returns start_shift when floor((date - threshold) / 14) is
\* even and the opposite shift when it is odd, always Day or Night; at the
\* threshold it returns start_shift; with the anchor (2025-05-28, Night) it
\* returns Night on 2025-05-28 and Day on 2025-06-11.
C4_RotationRule ==
    /\ FloorDiv(-17, 14) = -2
    /\ FloorDiv(-14, 14) = -1
    /\ GetShiftDone =>
          /\ gs.result \in {"Day", "Night"}
          /\ gs.result = IF IsEven(FloorDiv(gs.date - gs.threshold, 14))
                         THEN gs.start_shift
                         ELSE Opposite(gs.start_shift)
          /\ gs.date = gs.threshold => gs.result = gs.start_shift
          /\ (gs.threshold = date(2025, 5, 28) /\ gs.start_shift = "Night") =>
                /\ gs.date = date(2025, 5, 28) => gs.result = "Night"
                /\ gs.date = date(2025, 6, 11) => gs.result = "Day"

C4_Witness ==
    /\ GetShiftDone
    /\ gs.date - gs.threshold = -17
    /\ gs.threshold = date(2025, 5, 28)
    /\ gs.start_shift = "Night"
    /\ gs.result = "Night"

(***************************************************************************)
(* C5                                                                      *)
(***************************************************************************)
\* the shift day dd of the queried month is attributed to
AttributedShift(e, dd) == IF IsOffDay(e, dd) THEN ResolvedShift(e, dd) ELSE ShiftOn(e, dd)

\* C5: an off-day is attributed, by count_shifts and by the calendar label, to
\* the shift of the nearest earlier day of the same month that is not an
\* off-day, and to Day when the month has no such day before it: after each
\* iteration of count_shifts the buckets count the days visited by their
\* attributed shift, and every off-day record embeds the resolved shift.
C5_OffDayResolution ==
    /\ pc = "count_loop" =>
          /\ morning = Cardinality({k \in 1..(d - 1) : AttributedShift(employees[emp], k) = "Day"})
          /\ night = Cardinality({k \in 1..(d - 1) : AttributedShift(employees[emp], k) = "Night"})
    /\ InCalendar =>
          \A i \in 1..Len(rows) :
              IsOffDay(employees[emp], i) =>
                  /\ rows[i].Shift \in OffDayLabels
                  /\ LabelShift(rows[i].Shift) = ResolvedShift(employees[emp], i)

\* Sundar, September 2025: the month starts with the off-days Monday 1 and
\* Tuesday 2, and the rotation of Sunday, August 31 is Night
C5_Witness ==
    /\ InCalendar
    /\ chosen_name = "Sundar" /\ year = 2025 /\ selected_month = 9
    /\ IsOffDay(employees[emp], 1) /\ IsOffDay(employees[emp], 2)
    /\ get_shift(RawCustomTable["Sundar"].threshold, RawCustomTable["Sundar"].start_shift,
                 date(2025, 8, 31)) = "Night"
    /\ Len(rows) >= 2
    /\ LabelShift(rows[2].Shift) = "Day"
    /\ \E i \in 3..Len(rows) : IsOffDay(employees[emp], i) /\ LabelShift(rows[i].Shift) = "Night"
    /\ summary_rows[emp].Night > 0

(***************************************************************************)
(* C6                                                                      *)
(***************************************************************************)
\* C6: the i-th record of the calendar is the record of day i of the month,
\* and the finished calendar has as many records as the month has days.
C6_OneRecordPerDate ==
    InCalendar =>
        /\ \A i \in 1..Len(rows) : rows[i].Date = DateText(i)
        /\ \A i, j \in 1..Len(rows) : i < j => rows[i].Date # rows[j].Date
        /\ Len(rows) <= DaysInMonth(year, selected_month)
        /\ pc = "done" => Len(rows) = DaysInMonth(year, selected_month)

C6_Witness ==
    /\ InCalendar
    /\ pc = "done"
    /\ Len(rows) = 30
    /\ rows[1].Date = "2025-11-01"
    /\ rows[30].Date = "2025-11-30"

(***************************************************************************)
(* C7                                                                      *)
(***************************************************************************)
\* C7: a day-only employee has no night units, its working-day records are
\* labelled Day and its off-day records embed Day.
C7_DayOnlyNeverNight ==
    /\ \A i \in 1..Len(summary_rows) :
          summary_rows[i].Name \in DayOnlyNames => summary_rows[i].Night = 0
    /\ (pc = "count_loop" /\ employees[emp].name \in DayOnlyNames) => night = 0
    /\ (InCalendar /\ chosen_name \in DayOnlyNames) =>
          \A i \in 1..Len(rows) :
              /\ ~IsOffDay(employees[emp], i) => rows[i].Shift = "Day"
              /\ IsOffDay(employees[emp], i) =>
                    rows[i].Shift \in OffDayLabels /\ LabelShift(rows[i].Shift) = "Day"

C7_Witness ==
    /\ pc = "done"
    /\ chosen_name = "Durgeshini"
    /\ Len(summary_rows) = Len(employees)
    /\ summary_rows[1].Morning > 0
    /\ \E i \in 1..Len(rows) : IsOffDay(employees[emp], i)
    /\ \E i \in 1..Len(rows) : ~IsOffDay(employees[emp], i)

(***************************************************************************)
(* C8                                                                      *)
(***************************************************************************)
\* C8 as stated: every label is Day, Night, Off-(Day) or Off-(Night).
C8_Original ==
    \A i \in 1..Len(rows) : rows[i].Shift \in {"Day", "Night", "Off-(Day)", "Off-(Night)"}

\* C8, amended: every label is Day or Night for a working day, and for an
\* off-day the text Off, a space, an en dash, a space, and the resolved
\* shift in parentheses.
C8_FourLabels ==
    InCalendar =>
        \A i \in 1..Len(rows) :
            IF IsOffDay(employees[emp], i)
            THEN rows[i].Shift \in OffDayLabels
            ELSE rows[i].Shift \in {"Day", "Night"}

C8_Witness ==
    /\ pc = "done"
    /\ chosen_name = "Sundar"
    /\ {rows[i].Shift : i \in 1..Len(rows)} = {"Day", "Night"} \cup OffDayLabels

(***************************************************************************)
(* C9                                                                      *)
(***************************************************************************)
\* some Day/Night employee has no entry in raw_custom
MissingAnchor ==
    \E i \in 1..Len(employees) :
        employees[i].shift_type = "Day/Night Shift" /\ employees[i].name \notin DOMAIN raw_custom

C10_SummaryAgreesWithCalendar ==
    (pc = "done" /\ chosen_name # "") =>
        /\ summary_rows[emp].Name = chosen_name
        /\ summary_rows[emp].Morning =
              Cardinality({i \in 1..Len(rows) : LabelShift(rows[i].Shift) = "Day"})
        /\ summary_rows[emp].Night =
              Cardinality({i \in 1..Len(rows) : LabelShift(rows[i].Shift) = "Night"})

C10_Witness ==
    /\ pc = "done"
    /\ chosen_name = "Jalapathy"
    /\ summary_rows[emp].Night > 0
    /\ summary_rows[emp].Morning > 0
    /\ \E i \in 1..Len(rows) : rows[i].Shift = "Off " \o EN_DASH \o " (Night)"

====
